---------------------------- MODULE Spec2Model ----------------------------
(***************************************************************************)
(* Model of src/server.js: an Express service that loads a TensorFlow      *)
(* graph model at startup, accepts an image on POST /predict through       *)
(* multer, classifies it, appends the prediction to predictions.json and   *)
(* answers with the stored record.                                         *)
(*                                                                         *)
(* Node runs every callback to completion, so one action is one callback   *)
(* or one continuation of an async function between two awaits.            *)
(***************************************************************************)
EXTENDS Integers, Sequences, FiniteSets, TLC

(* ---------------------------- bounds ----------------------------------- *)
MaxReq == 2

Requests == 1..MaxReq

(* ------------------------- program constants --------------------------- *)
fileSize == 1000000

allowedTypes == {"image/jpeg", "image/png"}

MsgTooLarge == "Payload content length greater than maximum allowed: 1000000"
MsgInvalidType == "Invalid file type. Only JPEG and PNG are allowed."
MsgNoFile == "No file uploaded"
MsgPredictFail == "Terjadi kesalahan dalam melakukan prediksi"
MsgSuccess == "Model is predicted successfully"

\* Texts of the error objects raised inside the process.
ErrUnexpectedField == "Unexpected field"
ErrFileTooLarge == "File too large"
ErrTruncated == "Unexpected end of form"
ErrDecode == "Terjadi kesalahan input: Expected image (JPEG, PNG, or GIF)"
ErrNoModel == "Terjadi kesalahan input: Cannot read properties of undefined (reading 'predict')"
ErrModel == "Terjadi kesalahan input: model execution failed"
ErrNoEntry == "ENOENT: no such file or directory, open 'predictions.json'"
ErrWrite == "EACCES: permission denied, open 'predictions.json'"

SuggestCancer == "Segera periksa ke dokter!"
SuggestNonCancer == "Penyakit kanker tidak terdeteksi."

(* --------------------------- request inputs ---------------------------- *)
\* Where the multipart body carries its file: no file part at all, a file
\* part named `image`, or a file part under another field name.
Fields == {"none", "image", "other"}
MimeTypes == {"image/jpeg", "image/png", "image/gif"}
Sizes == {fileSize, fileSize + 1}
\* What the bytes really are, whatever type the client declared.
Contents == {"jpeg", "png", "junk"}

\* complete: the multipart body arrived whole.
NoUpload == [field |-> "none", mimetype |-> "", size |-> 0, content |-> "",
             complete |-> TRUE]

\* A body cut off inside its file part: what arrived is not an image.
Truncated == [field |-> "image", mimetype |-> "image/jpeg", size |-> fileSize,
              content |-> "junk", complete |-> FALSE]

\* The bytes of a file under another field are never looked at, so one kind
\* of content stands for all of them there.
Uploads ==
    {NoUpload, Truncated}
    \cup [field : {"image"}, mimetype : MimeTypes, size : Sizes, content : Contents,
          complete : {TRUE}]
    \cup [field : {"other"}, mimetype : MimeTypes, size : Sizes, content : {"jpeg"},
          complete : {TRUE}]

\* Score vectors the model may return, in hundredths (50 is a score of 0.50).
ScoreVectors == {<< >>, <<30>>, <<50>>, <<20, 80>>}

(* ------------------------------ state ---------------------------------- *)
VARIABLES
    main,      \* position of startup: "init", "loading", "ready", "exited"
    server,    \* the listening socket: "unbound", "listening", "closed"
    model,     \* the global model handle: "undefined" or "loaded"
    file,      \* predictions.json: whether it exists, and its text (a sequence of tokens)
    nextId,    \* number of identifiers uuidv4 has handed out
    req        \* per request: position, input, locals, response

vars == <<main, server, model, file, nextId, req>>

(* ------------------------- uuid and timestamps ------------------------- *)
\* uuidv4 returns a fresh identifier on every call.
IdPool == <<"uuid-1", "uuid-2", "uuid-3", "uuid-4", "uuid-5", "uuid-6">>

uuidv4(n) == IdPool[n + 1]

\* new Date(): the wall clock is an input; it may stand still between two
\* requests, and nothing in the code requires it to advance.
Times == {0, 1}

IsoPool == <<"1970-01-01T00:00:00.000Z", "1970-01-01T00:00:00.001Z",
             "1970-01-01T00:00:00.002Z", "1970-01-01T00:00:00.003Z">>

toISOString(t) == IsoPool[t + 1]

(* ------------------------------ JSON ----------------------------------- *)
\* The text of predictions.json is a sequence of tokens.  A record takes six
\* tokens, records are separated by a comma token.
DocTokens(d) == <<"{", d.id, d.result, d.suggestion, d.createdAt, "}">>

RECURSIVE JoinDocs(_)
JoinDocs(docs) ==
    IF docs = << >> THEN << >>
    ELSE IF Len(docs) = 1 THEN DocTokens(docs[1])
    ELSE DocTokens(docs[1]) \o <<",">> \o JoinDocs(Tail(docs))

\* A store that writes only the record just pushed.
JSONstringifyLast(docs) == <<"[">> \o DocTokens(docs[Len(docs)]) \o <<"]">>

JSONstringify(docs) == <<"[">> \o JoinDocs(docs) \o <<"]">>

RECURSIVE ParseDocs(_)
ParseDocs(toks) ==
    IF toks = << >> THEN << >>
    ELSE LET d == [id |-> toks[2], result |-> toks[3],
                   suggestion |-> toks[4], createdAt |-> toks[5]]
             rest == SubSeq(toks, 7, Len(toks))
         IN  <<d>> \o (IF rest = << >> THEN << >> ELSE ParseDocs(Tail(rest)))

JSONparse(text) == ParseDocs(SubSeq(text, 2, Len(text) - 1))

MissingFile == [exists |-> FALSE, text |-> << >>]
FileWith(text) == [exists |-> TRUE, text |-> text]

\* A store that keeps only the new record instead of pushing it.
pushInstead(predictions, doc) == <<doc>>

\* predictions.push(predictionDoc).
push(predictions, doc) == Append(predictions, doc)

\* fs.readFileSync(...) || '[]' followed by JSON.parse: the empty text reads
\* as the empty array.  A missing file makes readFileSync throw.
ReadPredictions(f) == JSONparse(IF f = << >> THEN <<"[", "]">> ELSE f)

\* The records a reader of the log finds.
LogOf(f) == IF f.exists THEN ReadPredictions(f.text) ELSE << >>

(* ----------------------------- multer ---------------------------------- *)
\* upload = multer({limits, fileFilter}).single('image').  multer rejects a
\* file under an unexpected field first, then asks fileFilter, then counts
\* the bytes against limits.fileSize; a body that ends early makes the
\* multipart parser raise an Error, which multer hands on as it is.
fileFilter(u) == u.mimetype \in allowedTypes

\* multer configured without limits.fileSize.
uploadNoLimit(u) ==
    IF u.field = "none" THEN [err |-> "none", hasFile |-> FALSE, message |-> ""]
    ELSE IF u.field # "image"
         THEN [err |-> "MulterError", hasFile |-> FALSE, message |-> ErrUnexpectedField]
    ELSE IF ~fileFilter(u)
         THEN [err |-> "Error", hasFile |-> FALSE, message |-> MsgInvalidType]
    ELSE IF ~u.complete
         THEN [err |-> "Error", hasFile |-> FALSE, message |-> ErrTruncated]
    ELSE [err |-> "none", hasFile |-> TRUE, message |-> ""]

upload(u) ==
    IF u.field = "none" THEN [err |-> "none", hasFile |-> FALSE, message |-> ""]
    ELSE IF u.field # "image"
         THEN [err |-> "MulterError", hasFile |-> FALSE, message |-> ErrUnexpectedField]
    ELSE IF ~fileFilter(u)
         THEN [err |-> "Error", hasFile |-> FALSE, message |-> MsgInvalidType]
    ELSE IF u.size > fileSize
         THEN [err |-> "MulterError", hasFile |-> FALSE, message |-> ErrFileTooLarge]
    ELSE IF ~u.complete
         THEN [err |-> "Error", hasFile |-> FALSE, message |-> ErrTruncated]
    ELSE [err |-> "none", hasFile |-> TRUE, message |-> ""]

(* ------------------------ predictClassification ------------------------ *)
\* tf.node.decodeJpeg decodes JPEG and PNG bytes and throws on anything else.
decodeJpeg(content) == content \in {"jpeg", "png"}

\* Math.max(...score): the largest element; -Infinity for no element.
NegInfinity == [finite |-> FALSE, v |-> 0]

MathMax(score) ==
    IF score = << >> THEN NegInfinity
    ELSE [finite |-> TRUE,
          v |-> CHOOSE m \in {score[i] : i \in 1..Len(score)} :
                    \A i \in 1..Len(score) : score[i] <= m]

\* confidenceScore > 50, with confidenceScore = Math.max(...score) * 100.
\* Scores are held in hundredths, so the product is the number itself.
\* A threshold that 50 itself passes.
isCancerFrom50(score) ==
    LET mx == MathMax(score)
    IN  mx.finite /\ mx.v >= 50

isCancer(score) ==
    LET mx == MathMax(score)
    IN  mx.finite /\ mx.v > 50

Classify(score) ==
    [label |-> IF isCancer(score) THEN "Cancer" ELSE "Non-cancer",
     suggestion |-> IF isCancer(score) THEN SuggestCancer ELSE SuggestNonCancer]

(* ----------------------------- requests -------------------------------- *)
NoDoc == [id |-> "", result |-> "", suggestion |-> "", createdAt |-> ""]
NoOutcome == [label |-> "", suggestion |-> ""]

\* fault: what the environment made fail for this request ("model": the model
\* call, "write": fs.writeFileSync); error: the text of the error object
\* raised for it; calls: calls of model.predict; responses: responses sent;
\* body: the `status` member of the JSON answer.
IdleReq ==
    [pc |-> "idle", in |-> NoUpload,
     modelSeen |-> "n/a", decoded |-> FALSE,
     score |-> << >>, thrown |-> FALSE, outcome |-> NoOutcome,
     fault |-> "none", error |-> "", calls |-> 0, responses |-> 0,
     status |-> 0, body |-> "", message |-> "", data |-> NoDoc, stored |-> NoDoc]

\* A response whose data is built anew, with an id of its own.
RespondRebuilt(r, code, msg, doc, saved) ==
    req' = [req EXCEPT ![r].pc = "done", ![r].score = << >>, ![r].status = code,
                       ![r].body = IF code = 201 THEN "success" ELSE "fail",
                       ![r].responses = @ + 1,
                       ![r].message = msg,
                       ![r].data = IF doc = NoDoc THEN doc
                                   ELSE [doc EXCEPT !.id = uuidv4(nextId + 1)],
                       ![r].stored = saved]

\* res.status(code).json({status, message, data}) at the end of a path.
Respond(r, code, msg, doc, saved) ==
    req' = [req EXCEPT ![r].pc = "done", ![r].score = << >>, ![r].status = code,
                       ![r].body = IF code = 201 THEN "success" ELSE "fail",
                       ![r].responses = @ + 1,
                       ![r].message = msg,
                       ![r].data = doc, ![r].stored = saved]

\* An error path that logs the error and sends nothing.
RespondErrorSilent(r, code, msg, err, kind) ==
    req' = [req EXCEPT ![r].pc = "dropped", ![r].score = << >>,
                       ![r].error = err, ![r].fault = kind]

\* An error path that answers with the text of the error it caught.
RespondErrorEcho(r, code, msg, err, kind) ==
    req' = [req EXCEPT ![r].pc = "done", ![r].score = << >>, ![r].status = code,
                       ![r].body = "fail",
                       ![r].responses = @ + 1,
                       ![r].message = err,
                       ![r].error = err, ![r].fault = kind]

\* The same, for a path that got there through a raised error.
RespondError(r, code, msg, err, kind) ==
    req' = [req EXCEPT ![r].pc = "done", ![r].score = << >>, ![r].status = code,
                       ![r].body = "fail",
                       ![r].responses = @ + 1,
                       ![r].message = msg,
                       ![r].error = err, ![r].fault = kind]

Alive == main \in {"loading", "ready"}

\* The continuation of an await on a settled promise is a microtask: it runs
\* before the event loop takes its next callback.
NoMicrotask == \A q \in Requests : req[q].pc # "predicted"

(* ------------------------------ startup -------------------------------- *)
Init ==
    /\ main = "init"
    /\ server = "unbound"
    /\ model = "undefined"
    /\ file \in {MissingFile, FileWith(<< >>), FileWith(<<"[", "]">>)}
    /\ nextId = 0
    /\ req = [r \in Requests |-> IdleReq]

\* app.listen: the port is bound, then the callback starts loadModel, which
\* waits for tf.loadGraphModel.
Listen ==
    /\ main = "init"
    /\ main' = "loading"
    /\ server' = "listening"
    /\ UNCHANGED <<model, file, nextId, req>>

LoadModelOk ==
    /\ main = "loading"
    /\ NoMicrotask
    /\ main' = "ready"
    /\ model' = "loaded"
    /\ UNCHANGED <<server, file, nextId, req>>

\* catch in loadModel: process.exit(1).
LoadModelFail ==
    /\ main = "loading"
    /\ NoMicrotask
    /\ main' = "exited"
    /\ server' = "closed"
    /\ UNCHANGED <<model, file, nextId, req>>

(* --------------------------- POST /predict ----------------------------- *)
\* A request reaches the route and multer starts to read its body.
Arrive(r) ==
    /\ Alive
    /\ server = "listening"
    /\ req[r].pc = "idle"
    /\ NoMicrotask
    /\ \A q \in 1..(r - 1) : req[q].pc # "idle"
    /\ \E u \in Uploads : req' = [req EXCEPT ![r].pc = "upload", ![r].in = u]
    /\ UNCHANGED <<main, server, model, file, nextId>>

\* multer's callback, down to the first await of predictClassification.
\* model.predict on a loaded model returns a tensor or throws.
UploadDone(r) ==
    /\ Alive
    /\ req[r].pc = "upload"
    /\ NoMicrotask
    /\ LET u == upload(req[r].in)
       IN  IF u.err = "MulterError" THEN RespondError(r, 413, MsgTooLarge, u.message, "none")
           ELSE IF u.err = "Error" THEN RespondError(r, 400, u.message, u.message, "none")
           ELSE IF ~u.hasFile THEN Respond(r, 400, MsgNoFile, NoDoc, NoDoc)
           ELSE IF ~decodeJpeg(req[r].in.content)
                THEN req' = [req EXCEPT ![r].pc = "predicted", ![r].modelSeen = model,
                                        ![r].thrown = TRUE, ![r].error = ErrDecode]
           ELSE IF model = "undefined"
                THEN req' = [req EXCEPT ![r].pc = "predicted", ![r].modelSeen = model,
                                        ![r].decoded = TRUE, ![r].thrown = TRUE,
                                        ![r].error = ErrNoModel]
           ELSE \/ req' = [req EXCEPT ![r].pc = "predicting", ![r].modelSeen = model,
                                      ![r].decoded = TRUE, ![r].calls = @ + 1]
                \/ req' = [req EXCEPT ![r].pc = "predicted", ![r].modelSeen = model,
                                      ![r].decoded = TRUE, ![r].calls = @ + 1,
                                      ![r].thrown = TRUE, ![r].fault = "model",
                                      ![r].error = ErrModel]
    /\ UNCHANGED <<main, server, model, file, nextId>>

\* prediction.data() settles: with the scores, and predictClassification
\* returns {label, suggestion}; or with an error, and it throws.
PredictReturn(r) ==
    /\ Alive
    /\ req[r].pc = "predicting"
    /\ NoMicrotask
    /\ \/ \E score \in ScoreVectors :
              req' = [req EXCEPT ![r].pc = "predicted", ![r].score = score,
                                 ![r].outcome = Classify(score)]
       \/ req' = [req EXCEPT ![r].pc = "predicted", ![r].thrown = TRUE,
                             ![r].fault = "model", ![r].error = ErrModel]
    /\ UNCHANGED <<main, server, model, file, nextId>>

\* The handler resumes after await predictClassification(...).  A missing
\* predictions.json makes fs.readFileSync throw; fs.writeFileSync throws when
\* it cannot open the file, which it then leaves as it was.
HandlerResume(r) ==
    /\ Alive
    /\ req[r].pc = "predicted"
    /\ IF req[r].thrown
       THEN /\ RespondError(r, 400, MsgPredictFail, req[r].error, req[r].fault)
            /\ UNCHANGED <<file, nextId>>
       ELSE \E now \in Times, writable \in BOOLEAN :
              LET predictionDoc == [id |-> uuidv4(nextId),
                                    result |-> req[r].outcome.label,
                                    suggestion |-> req[r].outcome.suggestion,
                                    createdAt |-> toISOString(now)]
              IN  /\ nextId' = nextId + 1
                  /\ IF ~file.exists
                     THEN /\ RespondError(r, 400, MsgPredictFail, ErrNoEntry, "none")
                          /\ UNCHANGED file
                     ELSE IF ~writable
                     THEN /\ RespondError(r, 400, MsgPredictFail, ErrWrite, "write")
                          /\ UNCHANGED file
                     ELSE /\ file' = FileWith(JSONstringify(
                                         push(ReadPredictions(file.text), predictionDoc)))
                          /\ Respond(r, 201, MsgSuccess, predictionDoc, predictionDoc)
    /\ UNCHANGED <<main, server, model>>

Next ==
    \/ Listen
    \/ LoadModelOk
    \/ LoadModelFail
    \/ \E r \in Requests : Arrive(r)
    \/ \E r \in Requests : UploadDone(r)
    \/ \E r \in Requests : PredictReturn(r)
    \/ \E r \in Requests : HandlerResume(r)

Spec == Init /\ [][Next]_vars

\* A model call that was started settles, and the continuation of a settled
\* await is run.  Nothing is assumed about requests arriving, about multer
\* finishing a body, or about the model getting loaded.
FairSpec ==
    /\ Spec
    /\ \A r \in Requests : WF_vars(PredictReturn(r)) /\ WF_vars(HandlerResume(r))

TypeOK ==
    /\ main \in {"init", "loading", "ready", "exited"}
    /\ server \in {"unbound", "listening", "closed"}
    /\ model \in {"undefined", "loaded"}
    /\ nextId \in 0..MaxReq
    /\ \A r \in Requests : req[r].status \in {0, 201, 400, 413}

(* ------------------------- vocabulary of the claims -------------------- *)
Done(r) == req[r].pc = "done"

\* The step in which request r is answered.
Answers(r) == req[r].pc # "done" /\ req'[r].pc = "done"

\* predictClassification returned a label for r.
InferenceOk(r) == req[r].outcome # NoOutcome

\* A valid JPEG or PNG of at most 1,000,000 bytes, declared as image/jpeg or
\* image/png, in field `image`.
ValidImage(u) ==
    /\ u.field = "image"
    /\ u.mimetype \in {"image/jpeg", "image/png"}
    /\ u.size <= 1000000
    /\ u.content \in {"jpeg", "png"}

Log == LogOf(file)

Positions(doc) == {i \in 1..Len(Log) : Log[i] = doc}

IsPrefix(s, t) == Len(s) <= Len(t) /\ SubSeq(t, 1, Len(s)) = s

(* ------------------------------- C1 ------------------------------------ *)
\* C1: every request with a valid JPEG or PNG of at most 1,000,000 bytes in
\* field `image` is answered 201, and the step that answers it makes the log
\* one record longer.  Requests for which the environment made the model call
\* or the write fail are left aside.
C1_ValidImageCreated ==
    [][\A r \in Requests :
          (Answers(r) /\ ValidImage(req[r].in) /\ req'[r].fault = "none") =>
              /\ req'[r].status = 201
              /\ Len(LogOf(file')) = Len(LogOf(file)) + 1]_vars

(* ------------------------------- C2 ------------------------------------ *)
\* C2: whenever a request has reached decoding or inference, or has been
\* answered, the model handle is loaded.
C2_ModelLoadedBeforeHandling ==
    \A r \in Requests :
        req[r].pc \in {"predicting", "predicted", "done"} => model = "loaded"

(* ------------------------------- C3 ------------------------------------ *)
\* C3: a process that exited because the model failed to load never bound its
\* port and never answered a request.
C3_ExitBeforeBind ==
    main = "exited" =>
        /\ server = "unbound"
        /\ \A r \in Requests : ~Done(r)

(* ------------------------------- C4 ------------------------------------ *)
\* C4: the stored records and the requests whose inference succeeded
\* correspond one to one: each stored record was written by exactly one
\* request whose inference succeeded, each answered request whose inference
\* succeeded has exactly one record in the log (unless the environment made
\* its write fail), and a request answered with anything but 201 wrote no
\* record.
C4_RecordsMatchInferences ==
    /\ \A i \in 1..Len(Log) :
           Cardinality({r \in Requests : InferenceOk(r) /\ req[r].stored = Log[i]}) = 1
    /\ \A r \in Requests :
           (Done(r) /\ InferenceOk(r) /\ req[r].fault = "none") =>
               Cardinality(Positions(req[r].stored)) = 1
    /\ \A r \in Requests :
           (Done(r) /\ req[r].status # 201) =>
               /\ req[r].stored = NoDoc
               /\ Positions(req[r].data) = {}

(* ------------------------------- C5 ------------------------------------ *)
\* C5: once a request is answered 201, the record in the response's data is
\* the record that request wrote, and the log holds it exactly once.
C5_CreatedRecordIsStored ==
    \A r \in Requests :
        (Done(r) /\ req[r].status = 201) =>
            /\ req[r].data = req[r].stored
            /\ req[r].data # NoDoc
            /\ Cardinality(Positions(req[r].data)) = 1

C5_Witness ==
    \E r \in Requests : Done(r) /\ req[r].status = 201 /\ Len(Log) = MaxReq

(* ------------------------------- C6 ------------------------------------ *)
\* C6: when a request whose inference succeeded reaches the store while the
\* log file is missing or empty, it is answered 201 and the log then holds
\* exactly the one new record (unless the environment made the write fail).
C6_MissingOrEmptyIsEmptyLog ==
    [][\A r \in Requests :
          (/\ Answers(r) /\ InferenceOk(r) /\ req'[r].fault = "none"
           /\ (~file.exists \/ file.text = << >>)) =>
              /\ req'[r].status = 201
              /\ file'.exists
              /\ LogOf(file') = <<req'[r].data>>]_vars

(* ------------------------------- C7 ------------------------------------ *)
\* C7 as stated: every request whose uploaded file is larger than 1,000,000
\* bytes is answered 413 with the maximum-size message, without inference
\* and without a change to the log.
C7_Original ==
    [][\A r \in Requests :
          (Answers(r) /\ req[r].in.field # "none" /\ req[r].in.size > 1000000) =>
              /\ req'[r].status = 413
              /\ req'[r].message = MsgTooLarge
              /\ req'[r].modelSeen = "n/a"
              /\ file' = file]_vars

\* C7 amended: every request whose uploaded file is larger than 1,000,000
\* bytes and is declared image/jpeg or image/png is answered 413 with the
\* maximum-size message, without inference and without a change to the log.
C7_OversizeRejected ==
    [][\A r \in Requests :
          (/\ Answers(r)
           /\ req[r].in.field # "none"
           /\ req[r].in.size > 1000000
           /\ req[r].in.mimetype \in {"image/jpeg", "image/png"}) =>
              /\ req'[r].status = 413
              /\ req'[r].message = MsgTooLarge
              /\ req'[r].modelSeen = "n/a"
              /\ file' = file]_vars

C7_Witness ==
    \E r \in Requests :
        /\ Done(r)
        /\ req[r].in.field = "image"
        /\ req[r].in.size > 1000000
        /\ req[r].in.mimetype = "image/jpeg"
        /\ req[r].status = 413

(* ------------------------------- C8 ------------------------------------ *)
\* C8: every request with no file in field `image` is answered 400 with
\* message `No file uploaded`, and the log is not changed.
C8_NoFileRejected ==
    [][\A r \in Requests :
          (Answers(r) /\ req[r].in.field # "image") =>
              /\ req'[r].status = 400
              /\ req'[r].message = "No file uploaded"
              /\ file' = file]_vars

(* ------------------------------- C9 ------------------------------------ *)
\* C9: every request whose uploaded file is declared with a type other than
\* image/jpeg and image/png is answered 400, without inference and without a
\* change to the log.
C9_InvalidTypeRejected ==
    [][\A r \in Requests :
          (/\ Answers(r)
           /\ req[r].in.field # "none"
           /\ req[r].in.mimetype \notin {"image/jpeg", "image/png"}) =>
              /\ req'[r].status = 400
              /\ req'[r].modelSeen = "n/a"
              /\ file' = file]_vars

(* ------------------------------- C10 ----------------------------------- *)
\* C10: the log holds one record for each request answered 201, all with
\* different ids, and every step either leaves the records as they are or
\* appends the record of the request it answers 201 after them.
C10_AppendOnly ==
    /\ [](/\ Len(Log) = Cardinality({r \in Requests : Done(r) /\ req[r].status = 201})
          /\ \A i, j \in 1..Len(Log) : Log[i].id = Log[j].id => i = j)
    /\ [][/\ file.exists => file'.exists
          /\ \/ LogOf(file') = LogOf(file)
             \/ \E r \in Requests :
                    /\ Answers(r)
                    /\ req'[r].status = 201
                    /\ LogOf(file') = Append(LogOf(file), req'[r].data)]_vars

C10_Witness == Len(Log) = MaxReq /\ Log[1].id # Log[2].id

(* ------------------------------- C11 ----------------------------------- *)
\* C11: the label and suggestion predictClassification returns are a fixed
\* function of the score vector: `Cancer` with the urgent-care suggestion
\* when some score times 100 is above 50, `Non-cancer` with the not-detected
\* suggestion otherwise, so also at exactly 50.  (Being this function of the
\* vector, the pair is the same each time the vector is.)
C11_ThresholdPolicy ==
    \A r \in Requests :
        (req[r].pc = "predicted" /\ InferenceOk(r)) =>
            LET above == \E i \in 1..Len(req[r].score) : req[r].score[i] > 50
            IN  /\ above => req[r].outcome =
                       [label |-> "Cancer", suggestion |-> "Segera periksa ke dokter!"]
                /\ ~above => req[r].outcome =
                       [label |-> "Non-cancer",
                        suggestion |-> "Penyakit kanker tidak terdeteksi."]
                /\ req[r].score = <<50>> => req[r].outcome.label = "Non-cancer"

\* A score of exactly 0.50 classified, after a request above it was stored.
C11_Witness ==
    \E r, q \in Requests :
        /\ req[r].pc = "predicted" /\ req[r].score = <<50>>
        /\ req[r].outcome.label = "Non-cancer"
        /\ Done(q) /\ req[q].status = 201 /\ req[q].stored.result = "Cancer"

(* ------------------------------- C12 ----------------------------------- *)
\* C12: a request that got past upload validation and for which decoding,
\* the model call or the store raised an error is answered 400 with status
\* `fail` and the one generic message, which is not the text of that error.
C12_PredictionFailureIsGeneric ==
    \A r \in Requests :
        (Done(r) /\ req[r].modelSeen # "n/a" /\ req[r].error # "") =>
            /\ req[r].status = 400
            /\ req[r].body = "fail"
            /\ req[r].message = "Terjadi kesalahan dalam melakukan prediksi"
            /\ req[r].message # req[r].error

C12_Witness ==
    \E r, q \in Requests :
        /\ Done(r) /\ req[r].error = ErrDecode /\ req[r].status = 400
        /\ Done(q) /\ req[q].fault = "write" /\ req[q].status = 400
        /\ req[r].message = req[q].message

(* ------------------------------- C13 ----------------------------------- *)
\* C13: every answer other than 201 has status `fail` and one of the five
\* fixed messages (no file, invalid file type, maximum size, generic
\* prediction failure, internal server error); no other text, such as that of
\* an error raised inside the process, reaches the client.
C13_OnlyControlledMessages ==
    \A r \in Requests :
        (Done(r) /\ req[r].status # 201) =>
            /\ req[r].body = "fail"
            /\ req[r].message \in
                   {"No file uploaded",
                    "Invalid file type. Only JPEG and PNG are allowed.",
                    "Payload content length greater than maximum allowed: 1000000",
                    "Terjadi kesalahan dalam melakukan prediksi",
                    "Internal server error"}

(* ------------------------------- C14 ----------------------------------- *)
\* C14: however the steps of concurrent requests interleave, no update of the
\* log is lost: the record of every request answered 201 is in the log, once,
\* and when all requests are answered the log holds exactly one record for
\* each 201.
C14_NoLostUpdate ==
    /\ \A r \in Requests :
           (Done(r) /\ req[r].status = 201) =>
               \E i \in 1..Len(Log) :
                   /\ Log[i] = req[r].stored
                   /\ \A j \in 1..Len(Log) : Log[j].id = req[r].stored.id => j = i
    /\ (\A r \in Requests : Done(r)) =>
           /\ Len(Log) = Cardinality({r \in Requests : req[r].status = 201})
           /\ \A i \in 1..Len(Log) :
                  \E r \in Requests : req[r].status = 201 /\ req[r].stored = Log[i]

\* Request 2 arrived after request 1 and stored its record before it: the
\* two were in progress together.
C14_Witness ==
    /\ Done(1) /\ req[1].status = 201
    /\ Done(2) /\ req[2].status = 201
    /\ Len(Log) >= 2
    /\ Log[1] = req[2].stored
    /\ Log[2] = req[1].stored

(* ------------------------------- C15 ----------------------------------- *)
\* C15: a request is answered 413, or with the maximum-size message, only
\* when its uploaded file was larger than 1,000,000 bytes.
C15_TooLargeOnlyForSize ==
    \A r \in Requests :
        (/\ Done(r)
         /\ \/ req[r].status = 413
            \/ req[r].message =
                   "Payload content length greater than maximum allowed: 1000000") =>
            /\ req[r].in.field # "none"
            /\ req[r].in.size > 1000000

(* ------------------------------- C16 ----------------------------------- *)
\* The model call of r has returned its scores.
ModelReturned(r) ==
    req[r].pc = "predicted" /\ req[r].calls > 0 /\ req[r].fault # "model"

\* C16: the classification fails exactly when the score vector is empty: an
\* empty vector gives no label, a request with an empty vector is answered
\* with an error and stores nothing, and every other vector gives a label and
\* a suggestion.
C16_PolicyFailsOnEmpty ==
    /\ [](\A r \in Requests :
             ModelReturned(r) => ((req[r].score = << >>) <=> ~InferenceOk(r)))
    /\ [][\A r \in Requests :
             (Answers(r) /\ ModelReturned(r) /\ req[r].score = << >>) =>
                 /\ req'[r].status # 201
                 /\ req'[r].body = "fail"
                 /\ file' = file]_vars

(* ------------------------------- C17 ----------------------------------- *)
\* C17: a request whose upload was parsed and whose model call, if any, has
\* settled is answered in the end; it gets one response, 201, 400 or 413;
\* model.predict is called at most once for it; and once it is answered
\* nothing more happens to it.
C17_AnsweredExactlyOnce ==
    /\ [](\A r \in Requests :
             /\ req[r].responses <= 1
             /\ req[r].calls <= 1
             /\ Done(r) <=> req[r].responses = 1
             /\ Done(r) => req[r].status \in {201, 400, 413})
    /\ [][\A r \in Requests : Done(r) => req'[r] = req[r]]_vars
    /\ \A r \in Requests :
           (req[r].pc \in {"predicting", "predicted"}) ~> Done(r)

\* Both ways a model call can end, each answered once: with scores and 201,
\* with an error and 400.
C17_Witness ==
    \E r, q \in Requests :
        /\ Done(r) /\ req[r].calls = 1 /\ req[r].fault = "model"
        /\ req[r].responses = 1 /\ req[r].status = 400
        /\ Done(q) /\ req[q].calls = 1 /\ req[q].responses = 1 /\ req[q].status = 201

=============================================================================
